---- MODULE Spec2Model ----
(***************************************************************************)
(* A model of reconify: the command-line reconciler                        *)
(* (reconify_pdf_recon.py: validate_input_files, find_exceptions) and the  *)
(* 'Start Reconciliation' handler of the Streamlit page                    *)
(* (streamlit_app.py), both run on the same HR file and application file   *)
(* (Spec); the getters of ConfigHandler (config_handler.py) called on a    *)
(* loaded configuration (SpecConfig); the run recorder of DatabaseHandler   *)
(* (db_handler.py) called by a client (SpecDb); the session of the         *)
(* Streamlit page over its runs (SpecSession); and two reconcilers of one  *)
(* process stepping concurrently (SpecPair).                                *)
(***************************************************************************)
EXTENDS Integers, Sequences, FiniteSets, TLC

(* ---------------------------- bounds ----------------------------------- *)
\* longest HR file (rows) and longest application ("tool") file (rows)
MaxHR == 2
MaxTool == 2
\* most entries of an application's SOT.HR_Data mapping
MaxMap == 2
\* most rows of reconciliation_runs, most results passed to one store call,
\* and most rows of reconciliation_results
MaxRuns == 2
MaxResults == 2
MaxStored == 2
\* most files put into the page's uploader, and the last second of its clock
MaxUploads == 2
MaxClock == 2
\* most rows of the files two concurrent reconcilers read
MaxPairRows == 2

(* ---------------------------- values ----------------------------------- *)
\* pandas' missing value: what read_csv yields for an empty cell (a float)
NaN == "NaN"

\* the cell values the files are drawn from
HREmails == {"a@x.com", "A@X.com"}
HRStatuses == {"Active", "INACTIVE"}
HRNames == {"Jane"}
ToolEmails == {"A@X.com", "b@x.com", NaN}
ToolStatuses == {"ACTIVE", "Inactive", "Disabled", NaN}
ToolRoles == {"Admin"}
ToolCreated == {"2024-01-01"}

HRRows == [email : HREmails, status : HRStatuses, name : HRNames]
ToolRows ==
  [user_email : ToolEmails, role_name : ToolRoles,
   user_status : ToolStatuses, created_at : ToolCreated]

\* the header rows a file may have
required_hr_columns == {"Official Email Address", "Employment Status", "Employee Name"}
required_tool_columns == {"user_email", "role_name", "user_status", "created_at"}
HRColumnSets == {required_hr_columns, required_hr_columns \ {"Employee Name"}}
ToolColumnSets ==
  {required_tool_columns, required_tool_columns \ {"role_name"},
   required_tool_columns \ {"user_email"}}

\* str.lower() on the strings of the model
LowerTable ==
  ("A@X.com" :> "a@x.com") @@ ("ACTIVE" :> "active") @@ ("Active" :> "active")
  @@ ("INACTIVE" :> "inactive") @@ ("Inactive" :> "inactive")
  @@ ("Disabled" :> "disabled") @@ ("Suspended" :> "suspended")
  @@ ("On Leave" :> "on leave")

str_lower(s) == IF s \in DOMAIN LowerTable THEN LowerTable[s] ELSE s

\* Series.str.lower(): element-wise, a missing value stays missing
series_str_lower(v) == IF v = NaN THEN NaN ELSE str_lower(v)

\* pandas' element-wise ==: a missing value equals nothing, itself included
pd_eq(a, b) == a # NaN /\ b # NaN /\ a = b

(* ---------------------------- helpers ---------------------------------- *)
\* the elements of a set of row numbers, ascending (DataFrame row order)
SortedSeq(S) ==
  [k \in 1..Cardinality(S) |-> CHOOSE x \in S : Cardinality({y \in S : y < x}) = k - 1]

RECURSIVE Concat(_)
Concat(ss) == IF ss = <<>> THEN <<>> ELSE Head(ss) \o Concat(Tail(ss))

\* every order in which the elements of a set can be iterated
Orders(S) ==
  {f \in [1..Cardinality(S) -> S] : \A p, q \in 1..Cardinality(S) : p # q => f[p] # f[q]}

Files(Rows, n) == UNION {[1..k -> Rows] : k \in 0..n}

\* an optional value: <<>> is None (or an absent key), <<x>> is x
Opt(S) == {<<>>} \cup {<<x>> : x \in S}

(* ---------------------------- the configuration ------------------------ *)
\* the JSON document ConfigHandler loads: application -> entry; an entry may
\* have an 'SOT' section; the section may configure 'HR_Data', the mapping
\* from HR field to panel field (a dict, so its entries are ordered), and
\* 'SellerPanel_Data', a source with a table format and column mappings
AppIds == {"slack", "jira"}
SourceTypes == {"HR_Data", "SellerPanel_Data", "Audit_Data"}
HRFields == {"Official Email Address", "Employee ID"}
PanelFields == {"user_email", "user_id"}
EmailMappings ==
  {m \in UNION {[1..k -> HRFields \X PanelFields] : k \in 0..MaxMap} :
     \A p, q \in 1..Len(m) : p # q => m[p][1] # m[q][1]}
RequiredColumnLists == {<<"user_email", "role_name">>, <<"user_email">>}
SourceEntries ==
  [table_format : [required_columns : RequiredColumnLists],
   mappings : {<< <<"user_email", "Official Email Address">> >>}]
SOTSections == [HR_Data : Opt(EmailMappings), SellerPanel_Data : Opt(SourceEntries)]
AppEntries == [SOT : Opt(SOTSections)]
Configs == [AppIds -> Opt(AppEntries)]

\* the headers of the tables handed to validate_file_format
DfColumns ==
  {<<>>, <<"user_email">>, <<"user_email", "role_name">>,
   <<"role_name", "user_email">>, <<"user_email", "notes">>,
   <<"notes", "user_email", "role_name">>, <<"notes">>}

(* ---------------------------- the database ----------------------------- *)
\* the values of reconciliation_runs.id (gen_random_uuid())
RunIds == 1..MaxRuns
RunStatuses == {"IN_PROGRESS", "COMPLETED", "FAILED"}
EndTimes == {"t1"}
\* table employees, and the employee_id values a result may carry
employees == {"e1"}
EmployeeIds == {"e1", "e9"}
ResultRows == [employee_id : EmployeeIds]
ResultLists == UNION {[1..k -> ResultRows] : k \in 0..MaxResults}

(* ---------------------------- state ------------------------------------ *)
VARIABLES
  program,            \* which program was started: "cli" or "streamlit"
  pc,                 \* where the program is
  hr_file,            \* rows of the HR CSV at the fixed path
  hr_columns,         \* its header
  tool_file,          \* rows of the application CSV
  tool_columns,       \* its header
  hr_df,              \* ReconifyReconciler.hr_df
  tool_df,            \* ReconifyReconciler.tool_df
  exceptions,         \* what find_exceptions returned
  error,              \* the exception that ended the run, "none" if none
  error_columns,      \* the columns its message lists
  rerun,              \* TRUE in the second process run on the same files
  prev_exceptions,    \* what find_exceptions returned in the first process
  hr_data,            \* st.session_state.hr_data (<<>>: not set, <<rows>>: set)
  app_data,           \* st.session_state.app_data (same encoding)
  reconciliation_results,  \* st.session_state.reconciliation_results (<<>>: None)
  primary_upload_complete, \* st.session_state.primary_upload_complete
  config,             \* ConfigHandler.config, the loaded JSON document
  cfg_call,           \* the last call made on the ConfigHandler
  cfg_result,         \* what that call raised and returned
  runs_table,         \* table reconciliation_runs: id -> row (<<>>: no such row)
  results_table,      \* table reconciliation_results, in insertion order
  db_call,            \* the last call made on the DatabaseHandler
  db_result,          \* what that call raised and returned
  created_ids,        \* the ids create_reconciliation_run returned, in order
  partial_failures,   \* the run ids of store calls that failed after a row was stored
  selected_app,       \* st.session_state.selected_app (<<>>: None)
  selectbox,          \* the value of the 'Select Application' widget
  mapping_app_selectbox,  \* the value of the Data Mapping widget (<<>>: not yet drawn)
  app_file,           \* the file in the uploader widget (<<>>: none)
  app_file_name,      \* st.session_state.app_file_name (<<>>: not set)
  raw_app_data,       \* st.session_state.raw_app_data (<<>>: not set)
  selected_columns,   \* st.session_state.selected_columns (<<>>: not set)
  reconciliation_id,  \* st.session_state.reconciliation_id (<<>>: not set)
  now,                \* datetime.now(), in seconds
  results_tab_id,     \* the ID the 'Reconciliation Results' tab shows (<<>>: none)
  report_tab_id,      \* the ID the status summary report shows (<<>>: none)
  uploads,            \* how many files were put into the uploader so far
  instances,          \* two ReconifyReconciler objects of one process
  hash_order          \* the process's string hashing: the order its sets iterate in

files == <<hr_file, hr_columns, tool_file, tool_columns>>
cli_vars == <<hr_df, tool_df, exceptions, error, error_columns, rerun, prev_exceptions>>
st_vars == <<hr_data, app_data, reconciliation_results, primary_upload_complete>>
engine_vars == <<program, pc, files, cli_vars, st_vars>>
cfg_vars == <<config, cfg_call, cfg_result>>
db_vars ==
  <<runs_table, results_table, db_call, db_result, created_ids, partial_failures>>

session_vars ==
  <<selected_app, selectbox, mapping_app_selectbox, app_file, app_file_name,
    raw_app_data, selected_columns, reconciliation_id, now, results_tab_id,
    report_tab_id, uploads>>
pair_vars == <<instances, hash_order>>

vars == <<engine_vars, cfg_vars, db_vars, session_vars, pair_vars>>

\* no configuration loaded and no ConfigHandler call made
cfg_idle ==
  /\ config = [a \in AppIds |-> <<>>]
  /\ cfg_call = [op |-> "none"]
  /\ cfg_result = [raised |-> "none"]

\* the database as _create_tables leaves it, and no recorder call made
db_idle ==
  /\ runs_table = [id \in RunIds |-> <<>>]
  /\ results_table = <<>>
  /\ db_call = [op |-> "none"]
  /\ db_result = [raised |-> "none"]
  /\ created_ids = <<>>
  /\ partial_failures = {}

\* no page session open
session_idle ==
  /\ selected_app = <<>>
  /\ selectbox = "none"
  /\ mapping_app_selectbox = <<>>
  /\ app_file = <<>>
  /\ app_file_name = <<>>
  /\ raw_app_data = <<>>
  /\ selected_columns = <<>>
  /\ reconciliation_id = <<>>
  /\ now = 1
  /\ results_tab_id = <<>>
  /\ report_tab_id = <<>>
  /\ uploads = 0

\* no pair of reconcilers constructed
pair_idle ==
  /\ instances = <<>>
  /\ hash_order = <<>>

Init ==
  /\ program \in {"cli", "streamlit"}
  /\ pc = "start"
  /\ hr_file \in Files(HRRows, MaxHR)
  /\ hr_columns \in HRColumnSets
  /\ tool_file \in Files(ToolRows, MaxTool)
  /\ tool_columns \in ToolColumnSets
  /\ hr_df = <<>>
  /\ tool_df = <<>>
  /\ exceptions = <<>>
  /\ error = "none"
  /\ error_columns = {}
  /\ rerun = FALSE
  /\ prev_exceptions = <<>>
  /\ hr_data = <<>>
  /\ app_data = <<>>
  /\ reconciliation_results = <<>>
  /\ primary_upload_complete = FALSE
  /\ cfg_idle
  /\ db_idle
  /\ session_idle
  /\ pair_idle

(* ------------------ reconify_pdf_recon.py: the command line ------------ *)
\* Series.str raises AttributeError unless the column holds strings: a
\* non-empty column of missing values only is read as float64
str_accessor_raises(column) ==
  Len(column) > 0 /\ \A k \in 1..Len(column) : column[k] = NaN

hr_email_column(hr) == [k \in 1..Len(hr) |-> hr[k].email]
hr_status_column(hr) == [k \in 1..Len(hr) |-> hr[k].status]
tool_email_column(tool) == [k \in 1..Len(tool) |-> tool[k].user_email]

lower_hr_emails(hr) ==
  [k \in 1..Len(hr) |-> [hr[k] EXCEPT !.email = series_str_lower(@)]]
lower_tool_emails(tool) ==
  [k \in 1..Len(tool) |-> [tool[k] EXCEPT !.user_email = series_str_lower(@)]]

\* the columns the ValueError's message lists: "HR data missing required
\* columns: {required_hr_columns}" prints the whole list of required columns
hr_error_columns(columns) == required_hr_columns
tool_error_columns(columns) == required_tool_columns

\* ReconifyReconciler.validate_input_files
validate_input_files ==
  /\ program = "cli"
  /\ pc = "start"
  /\ IF ~(required_hr_columns \subseteq hr_columns)
       THEN /\ hr_df' = hr_file
            /\ tool_df' = tool_df
            /\ error' = "ValueError"
            /\ error_columns' = hr_error_columns(hr_columns)
            /\ pc' = "failed"
     ELSE IF ~(required_tool_columns \subseteq tool_columns)
       THEN /\ hr_df' = hr_file
            /\ tool_df' = tool_file
            /\ error' = "ValueError"
            /\ error_columns' = tool_error_columns(tool_columns)
            /\ pc' = "failed"
     ELSE IF str_accessor_raises(hr_email_column(hr_file))
       THEN /\ hr_df' = hr_file
            /\ tool_df' = tool_file
            /\ error' = "AttributeError"
            /\ error_columns' = {}
            /\ pc' = "failed"
     ELSE IF str_accessor_raises(tool_email_column(tool_file))
       THEN /\ hr_df' = lower_hr_emails(hr_file)
            /\ tool_df' = tool_file
            /\ error' = "AttributeError"
            /\ error_columns' = {}
            /\ pc' = "failed"
     ELSE /\ hr_df' = lower_hr_emails(hr_file)
          /\ tool_df' = lower_tool_emails(tool_file)
          /\ error' = "none"
          /\ error_columns' = {}
          /\ pc' = "validated"
  /\ UNCHANGED <<program, files, exceptions, rerun, prev_exceptions, st_vars>>
  /\ UNCHANGED <<cfg_vars, db_vars, session_vars, pair_vars>>

\* rows of hr_df whose 'Employment Status', lower-cased, is 'inactive'
inactive_hr(hr) ==
  SortedSeq({j \in 1..Len(hr) : series_str_lower(hr[j].status) = "inactive"})

\* rows of tool_df whose 'user_email' equals the given email
tool_matches(tool, email) ==
  SortedSeq({i \in 1..Len(tool) : pd_eq(tool[i].user_email, email)})

\* a variant that lower-cases every tool row's status, matched or not
loop1_raises_every_row(hr, tool) ==
  \E i \in 1..Len(tool) : tool[i].user_status = NaN

\* tool_row['user_status'].lower() raises AttributeError on a missing value
loop1_raises(hr, tool) ==
  \E j \in 1..Len(hr) :
    /\ series_str_lower(hr[j].status) = "inactive"
    /\ \E i \in 1..Len(tool) :
         pd_eq(tool[i].user_email, hr[j].email) /\ tool[i].user_status = NaN

\* the exception row built from an HR row (or none) and a tool row; 'row' is
\* the tool row's position, kept to tell rows of equal content apart
exception_data(name, email, tool, i, branch) ==
  [EmployeeName |-> name, Email |-> email, Tool |-> tool[i], row |-> i,
   branch |-> branch]

not_inactive_or_disabled(status) == str_lower(status) \notin {"inactive", "disabled"}

\* "Find inactive users with active tool access"
loop1(hr, tool) ==
  LET inact == inactive_hr(hr)
      for_hr(j) ==
        LET m == tool_matches(tool, hr[j].email)
            keep == SelectSeq(m, LAMBDA i : not_inactive_or_disabled(tool[i].user_status))
        IN [k \in 1..Len(keep) |->
              exception_data(hr[j].name, hr[j].email, tool, keep[k], "inactive_hr")]
  IN Concat([k \in 1..Len(inact) |-> for_hr(inact[k])])

\* tool_emails - hr_emails
missing_in_hr(hr, tool) ==
  {tool[i].user_email : i \in 1..Len(tool)} \ {hr[j].email : j \in 1..Len(hr)}

\* "Find users in tool but missing in HR", the set iterated in the given order
loop2(tool, order) ==
  LET for_email(email) ==
        LET m == tool_matches(tool, email)
        IN [k \in 1..Len(m) |-> exception_data("N/A", email, tool, m[k], "missing_in_hr")]
  IN Concat([k \in 1..Len(order) |-> for_email(order[k])])

\* ReconifyReconciler.find_exceptions; a Python set of strings is iterated in
\* hash order, which the interpreter randomises per process
find_exceptions ==
  /\ program = "cli"
  /\ pc = "validated"
  /\ IF str_accessor_raises(hr_status_column(hr_df)) \/ loop1_raises(hr_df, tool_df)
       THEN /\ exceptions' = exceptions
            /\ error' = "AttributeError"
            /\ pc' = "failed"
       ELSE /\ \E order \in Orders(missing_in_hr(hr_df, tool_df)) :
                 exceptions' = loop1(hr_df, tool_df) \o loop2(tool_df, order)
            /\ error' = "none"
            /\ pc' = "done"
  /\ UNCHANGED <<program, files, hr_df, tool_df, rerun, prev_exceptions, st_vars>>
  /\ UNCHANGED <<error_columns, cfg_vars, db_vars, session_vars, pair_vars>>

\* the command is run a second time, as a new process, on the same files
cli_main_again ==
  /\ program = "cli"
  /\ pc = "done"
  /\ ~rerun
  /\ rerun' = TRUE
  /\ prev_exceptions' = exceptions
  /\ hr_df' = <<>>
  /\ tool_df' = <<>>
  /\ exceptions' = <<>>
  /\ error' = "none"
  /\ error_columns' = {}
  /\ pc' = "start"
  /\ UNCHANGED <<program, files, st_vars, cfg_vars, db_vars, session_vars, pair_vars>>

(* ------------------ streamlit_app.py: the page ------------------------- *)
\* the selected application's SOT.HR_Data mapping: its first key and value
hr_email_field == "Official Email Address"
panel_email_field == "user_email"

\* the application file is uploaded and ingested with every column selected,
\* and the HR file is read from its fixed path
ingest_and_load_hr ==
  /\ program = "streamlit"
  /\ pc = "start"
  /\ IF panel_email_field \notin tool_columns
       THEN /\ app_data' = app_data
            /\ hr_data' = hr_data
            /\ pc' = "stopped"
       ELSE /\ app_data' = <<tool_file>>
            /\ hr_data' = <<hr_file>>
            /\ pc' = "loaded"
  /\ UNCHANGED <<program, files, cli_vars, reconciliation_results, primary_upload_complete>>
  /\ UNCHANGED <<cfg_vars, db_vars, session_vars, pair_vars>>

\* email not in reconciler.hr_df[hr_email_field].values
not_in_hr_values(email, hr) == ~\E j \in 1..Len(hr) : pd_eq(hr[j].email, email)

\* row.get('role_name', 'N/A')
row_get_role(row) == IF "role_name" \in tool_columns THEN row.role_name ELSE "N/A"

st_exception(panel, i) ==
  [email |-> panel[i].user_email, role |-> row_get_role(panel[i]),
   action |-> "revoke", pre_status |-> "active", post_status |-> "inactive",
   row |-> i]

\* a variant that marks the upload complete before it builds the reconciler
start_reconciliation_marks_complete_first ==
  /\ program = "streamlit"
  /\ pc = "loaded"
  /\ hr_data # <<>> /\ app_data # <<>>
  /\ reconciliation_results' = reconciliation_results
  /\ primary_upload_complete' = TRUE
  /\ pc' = "st_error"
  /\ UNCHANGED <<program, files, cli_vars, hr_data, app_data>>
  /\ UNCHANGED <<cfg_vars, db_vars, session_vars, pair_vars>>

\* the 'Start Reconciliation' button. Its first statement is
\* ReconifyReconciler(app_name=...): __init__(self, tool_path, tool_name) of
\* reconify_pdf_recon.py has no such parameter and raises TypeError, which the
\* handler's 'except Exception' reports with st.error. The statements after
\* it are written for a reconciler class that takes the keyword; they are
\* modelled as well (accepts_app_name), so that what they do can be examined.
start_reconciliation ==
  /\ program = "streamlit"
  /\ pc = "loaded"
  /\ hr_data # <<>> /\ app_data # <<>>
  /\ \E accepts_app_name \in BOOLEAN :
       LET panel_df == app_data[1]
           hr == hr_data[1]
           flagged == SortedSeq({i \in 1..Len(panel_df) :
                                   not_in_hr_values(panel_df[i].user_email, hr)})
       IN IF ~accepts_app_name
            THEN /\ reconciliation_results' = reconciliation_results
                 /\ primary_upload_complete' = primary_upload_complete
                 /\ pc' = "st_error"
          ELSE IF Len(panel_df) > 0 /\ panel_email_field \notin tool_columns
            THEN /\ reconciliation_results' = reconciliation_results
                 /\ primary_upload_complete' = primary_upload_complete
                 /\ pc' = "stopped"
          ELSE /\ reconciliation_results' =
                      <<[k \in 1..Len(flagged) |-> st_exception(panel_df, flagged[k])]>>
               /\ primary_upload_complete' = TRUE
               /\ pc' = "st_done"
  /\ UNCHANGED <<program, files, cli_vars, hr_data, app_data>>
  /\ UNCHANGED <<cfg_vars, db_vars, session_vars, pair_vars>>

Next ==
  \/ validate_input_files
  \/ find_exceptions
  \/ cli_main_again
  \/ ingest_and_load_hr
  \/ start_reconciliation

Spec == Init /\ [][Next]_vars

\* the same programs on files whose cells are less tidy: an email with
\* surrounding blanks, and statuses outside the words the code looks for
UntidyHRRows ==
  [email : {"a@x.com"}, status : {"INACTIVE", "On Leave"}, name : HRNames]
UntidyToolRows ==
  [user_email : {"A@X.com", " a@x.com "}, role_name : ToolRoles,
   user_status : {"ACTIVE", "Suspended"}, created_at : ToolCreated]

InitUntidy ==
  /\ program \in {"cli", "streamlit"}
  /\ pc = "start"
  /\ hr_file \in Files(UntidyHRRows, MaxHR)
  /\ hr_columns \in HRColumnSets
  /\ tool_file \in Files(UntidyToolRows, MaxTool)
  /\ tool_columns \in ToolColumnSets
  /\ hr_df = <<>>
  /\ tool_df = <<>>
  /\ exceptions = <<>>
  /\ error = "none"
  /\ error_columns = {}
  /\ rerun = FALSE
  /\ prev_exceptions = <<>>
  /\ hr_data = <<>>
  /\ app_data = <<>>
  /\ reconciliation_results = <<>>
  /\ primary_upload_complete = FALSE
  /\ cfg_idle
  /\ db_idle
  /\ session_idle
  /\ pair_idle

SpecUntidy == InitUntidy /\ [][Next]_vars

(* ------------------ config_handler.py: ConfigHandler ------------------- *)
\* the ValueErrors the getters raise, told apart by their message
ConfigurationNotFound == "Configuration not found for application"
SourceTypeNotFound == "Source type not found in configuration"
HRDataNotFound == "HR data configuration not found"

\* the outcome of a call: an exception raised, or a value returned
raises(e) == [raised |-> e, value |-> <<>>]
returns(v) == [raised |-> "none", value |-> <<v>>]
returns_none == [raised |-> "none", value |-> <<>>]

Range(s) == {s[k] : k \in 1..Len(s)}

\* a variant that answers an unknown application with an empty entry, as
\* self.config.get(app_name, {}) would
get_app_config_or_empty(cfg, app_name) ==
  IF cfg[app_name] = <<>> THEN returns([SOT |-> <<>>]) ELSE returns(cfg[app_name][1])

\* ConfigHandler.get_app_config
get_app_config(cfg, app_name) ==
  IF cfg[app_name] = <<>>
    THEN raises(ConfigurationNotFound)
    ELSE returns(cfg[app_name][1])

\* 'SOT' in app_config and source_type in app_config['SOT']
source_configured(app_config, source_type) ==
  /\ app_config.SOT # <<>>
  /\ source_type \in DOMAIN app_config.SOT[1]
  /\ app_config.SOT[1][source_type] # <<>>

\* ConfigHandler.get_table_format; the HR_Data entry is the flat field
\* mapping, which has no 'table_format' key
get_table_format(cfg, app_name, source_type) ==
  LET got == get_app_config(cfg, app_name)
  IN IF got.raised # "none" THEN got
     ELSE IF ~source_configured(got.value[1], source_type)
       THEN raises(SourceTypeNotFound)
     ELSE IF source_type = "HR_Data" THEN raises("KeyError")
     ELSE returns(got.value[1].SOT[1][source_type][1].table_format)

\* an error entry: its text before the colon, and the columns it lists
error_entry(text, columns) == [text |-> text, columns |-> columns]

\* a variant whose verdict looks at the missing columns only
validate_file_format_missing_only(cfg, app_name, source_type, columns) ==
  LET got == get_table_format(cfg, app_name, source_type)
  IN IF got.raised # "none" THEN got
     ELSE LET required_columns == got.value[1].required_columns
              missing_columns ==
                SelectSeq(required_columns, LAMBDA col : col \notin Range(columns))
              extra_columns ==
                SelectSeq(columns, LAMBDA col : col \notin Range(required_columns))
              errors ==
                (IF missing_columns # <<>>
                   THEN <<error_entry("Missing required columns", missing_columns)>>
                   ELSE <<>>)
                \o (IF extra_columns # <<>>
                      THEN <<error_entry("Extra columns found", extra_columns)>>
                      ELSE <<>>)
          IN returns([is_valid |-> missing_columns = <<>>, errors |-> errors])

\* ConfigHandler.validate_file_format, on a table with the given header
validate_file_format(cfg, app_name, source_type, columns) ==
  LET got == get_table_format(cfg, app_name, source_type)
  IN IF got.raised # "none" THEN got
     ELSE LET required_columns == got.value[1].required_columns
              missing_columns ==
                SelectSeq(required_columns, LAMBDA col : col \notin Range(columns))
              extra_columns ==
                SelectSeq(columns, LAMBDA col : col \notin Range(required_columns))
              errors ==
                (IF missing_columns # <<>>
                   THEN <<error_entry("Missing required columns", missing_columns)>>
                   ELSE <<>>)
                \o (IF extra_columns # <<>>
                      THEN <<error_entry("Extra columns found", extra_columns)>>
                      ELSE <<>>)
          IN returns([is_valid |-> Len(errors) = 0, errors |-> errors])

\* a variant without the check that the source type is configured
get_source_mappings_unchecked(cfg, app_name, source_type) ==
  LET got == get_app_config(cfg, app_name)
  IN IF got.raised # "none" THEN got
     ELSE IF ~source_configured(got.value[1], source_type) \/ source_type = "HR_Data"
       THEN raises("KeyError")
     ELSE returns(got.value[1].SOT[1][source_type][1].mappings)

\* ConfigHandler.get_source_mappings; the HR_Data entry has no 'mappings' key
get_source_mappings(cfg, app_name, source_type) ==
  LET got == get_app_config(cfg, app_name)
  IN IF got.raised # "none" THEN got
     ELSE IF ~source_configured(got.value[1], source_type)
       THEN raises(SourceTypeNotFound)
     ELSE IF source_type = "HR_Data" THEN raises("KeyError")
     ELSE returns(got.value[1].SOT[1][source_type][1].mappings)

\* ConfigHandler.get_email_mapping
get_email_mapping(cfg, app_name) ==
  LET got == get_app_config(cfg, app_name)
  IN IF got.raised # "none" THEN got
     ELSE IF ~source_configured(got.value[1], "HR_Data")
       THEN raises(HRDataNotFound)
     ELSE returns(got.value[1].SOT[1].HR_Data[1])

\* ConfigHandler.get_hr_email_column: list(mapping.keys())[0]
get_hr_email_column(cfg, app_name) ==
  LET got == get_email_mapping(cfg, app_name)
  IN IF got.raised # "none" THEN got
     ELSE IF got.value[1] = <<>> THEN raises("IndexError")
     ELSE returns(got.value[1][1][1])

\* a variant that takes the last value of the mapping
get_panel_email_column_last(cfg, app_name) ==
  LET got == get_email_mapping(cfg, app_name)
  IN IF got.raised # "none" THEN got
     ELSE IF got.value[1] = <<>> THEN raises("IndexError")
     ELSE returns(got.value[1][Len(got.value[1])][2])

\* ConfigHandler.get_panel_email_column: list(mapping.values())[0]
get_panel_email_column(cfg, app_name) ==
  LET got == get_email_mapping(cfg, app_name)
  IN IF got.raised # "none" THEN got
     ELSE IF got.value[1] = <<>> THEN raises("IndexError")
     ELSE returns(got.value[1][1][2])

\* a call as the client made it
config_call(op, app_name, source_type, columns) ==
  [op |-> op, app_name |-> app_name, source_type |-> source_type, columns |-> columns]

call_get_app_config ==
  \E app_name \in AppIds :
    /\ cfg_call' = config_call("get_app_config", app_name, "-", <<>>)
    /\ cfg_result' = get_app_config(config, app_name)
    /\ UNCHANGED <<config, engine_vars, db_vars, session_vars, pair_vars>>

call_validate_file_format ==
  \E app_name \in AppIds, source_type \in SourceTypes, columns \in DfColumns :
    /\ cfg_call' = config_call("validate_file_format", app_name, source_type, columns)
    /\ cfg_result' = validate_file_format(config, app_name, source_type, columns)
    /\ UNCHANGED <<config, engine_vars, db_vars, session_vars, pair_vars>>

call_get_source_mappings ==
  \E app_name \in AppIds, source_type \in SourceTypes :
    /\ cfg_call' = config_call("get_source_mappings", app_name, source_type, <<>>)
    /\ cfg_result' = get_source_mappings(config, app_name, source_type)
    /\ UNCHANGED <<config, engine_vars, db_vars, session_vars, pair_vars>>

call_get_hr_email_column ==
  \E app_name \in AppIds :
    /\ cfg_call' = config_call("get_hr_email_column", app_name, "-", <<>>)
    /\ cfg_result' = get_hr_email_column(config, app_name)
    /\ UNCHANGED <<config, engine_vars, db_vars, session_vars, pair_vars>>

call_get_panel_email_column ==
  \E app_name \in AppIds :
    /\ cfg_call' = config_call("get_panel_email_column", app_name, "-", <<>>)
    /\ cfg_result' = get_panel_email_column(config, app_name)
    /\ UNCHANGED <<config, engine_vars, db_vars, session_vars, pair_vars>>

\* neither program is running
engine_idle ==
  /\ program = "none"
  /\ pc = "idle"
  /\ hr_file = <<>>
  /\ hr_columns = required_hr_columns
  /\ tool_file = <<>>
  /\ tool_columns = required_tool_columns
  /\ hr_df = <<>>
  /\ tool_df = <<>>
  /\ exceptions = <<>>
  /\ error = "none"
  /\ error_columns = {}
  /\ rerun = FALSE
  /\ prev_exceptions = <<>>
  /\ hr_data = <<>>
  /\ app_data = <<>>
  /\ reconciliation_results = <<>>
  /\ primary_upload_complete = FALSE

\* ConfigHandler.__init__ has loaded some configuration
InitConfig ==
  /\ engine_idle
  /\ db_idle
  /\ session_idle
  /\ pair_idle
  /\ config \in Configs
  /\ cfg_call = [op |-> "none"]
  /\ cfg_result = [raised |-> "none"]

NextConfig ==
  \/ call_get_app_config
  \/ call_validate_file_format
  \/ call_get_source_mappings
  \/ call_get_hr_email_column
  \/ call_get_panel_email_column

SpecConfig == InitConfig /\ [][NextConfig]_vars

(* ------------------ db_handler.py: the run recorder -------------------- *)
\* the connection is in autocommit mode: each statement is its own
\* transaction, and what a statement wrote stays when a later one fails

\* the row INSERT INTO reconciliation_runs writes
new_run == [status |-> "IN_PROGRESS", end_time |-> <<>>]

\* a call as the client made it
db_called(op, run_id) == [op |-> op, run_id |-> run_id]

\* DatabaseHandler.create_reconciliation_run; gen_random_uuid() draws the id,
\* and the primary key rejects an id the table already holds
create_reconciliation_run ==
  \E id \in RunIds :
    /\ db_call' = db_called("create_reconciliation_run", <<>>)
    /\ IF runs_table[id] # <<>>
         THEN /\ db_result' = raises("UniqueViolation")
              /\ UNCHANGED <<runs_table, created_ids>>
         ELSE /\ runs_table' = [runs_table EXCEPT ![id] = <<new_run>>]
              /\ db_result' = returns(id)
              /\ created_ids' = Append(created_ids, id)
    /\ UNCHANGED <<results_table, partial_failures, engine_vars, cfg_vars, session_vars, pair_vars>>

\* the row UPDATE reconciliation_runs leaves: the status always, the end time
\* when one is given
updated_run(run, status, end_time) ==
  [status |-> status, end_time |-> IF end_time # <<>> THEN end_time ELSE run.end_time]

\* DatabaseHandler.update_reconciliation_run_status: UPDATE ... WHERE id = run_id
update_reconciliation_run_status ==
  \E run_id \in Opt(RunIds), status \in RunStatuses, end_time \in Opt(EndTimes) :
    /\ db_call' = db_called("update_reconciliation_run_status", run_id)
    /\ db_result' = returns_none
    /\ runs_table' =
         IF run_id = <<>> \/ runs_table[run_id[1]] = <<>>
           THEN runs_table
           ELSE [runs_table EXCEPT ![run_id[1]] =
                   <<updated_run(runs_table[run_id[1]][1], status, end_time)>>]
    /\ UNCHANGED <<results_table, created_ids, partial_failures, engine_vars, cfg_vars, session_vars, pair_vars>>

\* INSERT INTO reconciliation_results fails on a foreign key that points at no
\* row: reconciliation_run_id (NULL is accepted) or employee_id
insert_fails(run_id, result) ==
  \/ run_id # <<>> /\ runs_table[run_id[1]] = <<>>
  \/ result.employee_id \notin employees

result_row(run_id, result) ==
  [reconciliation_run_id |-> run_id, employee_id |-> result.employee_id]

\* how many results are inserted: all, or those before the first that fails
stored_count(run_id, results) ==
  LET failing == {k \in 1..Len(results) : insert_fails(run_id, results[k])}
  IN IF failing = {} THEN Len(results)
     ELSE (CHOOSE k \in failing : \A j \in failing : k <= j) - 1

\* DatabaseHandler.store_reconciliation_results
store_reconciliation_results ==
  \E run_id \in Opt(RunIds), results \in ResultLists :
    /\ Len(results_table) + Len(results) <= MaxStored
    /\ db_call' = db_called("store_reconciliation_results", run_id)
    /\ LET n == stored_count(run_id, results)
       IN /\ results_table' =
               results_table \o [k \in 1..n |-> result_row(run_id, results[k])]
          /\ db_result' =
               IF n = Len(results) THEN returns_none ELSE raises("ForeignKeyViolation")
          /\ partial_failures' =
               IF n < Len(results) /\ n > 0 /\ run_id # <<>>
                 THEN partial_failures \cup {run_id[1]}
                 ELSE partial_failures
    /\ UNCHANGED <<runs_table, created_ids, engine_vars, cfg_vars, session_vars, pair_vars>>

\* DatabaseHandler.__init__ has connected and created the tables
InitDb ==
  /\ engine_idle
  /\ cfg_idle
  /\ db_idle
  /\ session_idle
  /\ pair_idle

NextDb ==
  \/ create_reconciliation_run
  \/ update_reconciliation_run_status
  \/ store_reconciliation_results

SpecDb == InitDb /\ [][NextDb]_vars

(* ------------------ streamlit_app.py: the session ---------------------- *)
\* Streamlit runs main() from top to bottom on every interaction with the
\* page; st.session_state and the widgets' values live on between the runs.
\* A DataFrame of the session is kept as the upload it was read from and its
\* columns; the uploaded files are readable and have at least one row.

\* the configurations the page may load: every application has an entry, with
\* an SOT.HR_Data mapping or without an 'SOT' section
SessionMappings ==
  {<< <<"Official Email Address", "user_email">> >>,
   << <<"Official Email Address", "user_id">> >>,
   << <<"Employee ID", "user_id">>, <<"Official Email Address", "user_email">> >>}
session_entry(m) == [SOT |-> <<[HR_Data |-> <<m>>, SellerPanel_Data |-> <<>>]>>]
SessionConfigs ==
  [AppIds -> {<<session_entry(m)>> : m \in SessionMappings} \cup {<<[SOT |-> <<>>]>>}]

\* the first option of 'Select Application', which the widget starts with
first_app == "slack"

\* the files put into the uploader
UploadNames == {"users.csv", "export.csv"}
UploadColumnSets == {{"user_email", "role_name"}, {"user_id", "role_name"}}

\* f"RCN_{app_name}_{timestamp}", the timestamp to the second
generate_reconciliation_id(app_name, t) == <<"RCN", app_name, t>>

\* mapping[key] on a dict: the value (<<>>: KeyError)
mapping_get(m, key) ==
  LET hits == {k \in 1..Len(m) : m[k][1] = key}
  IN IF hits = {} THEN <<>> ELSE <<m[CHOOSE k \in hits : TRUE][2]>>

\* ingestion's "Verify required fields exist": no field to check without an
\* 'SOT' section, else ['SOT']['HR_Data']['Official Email Address']
ingest_required_field(cfg, app) ==
  LET got == get_app_config(cfg, app)
  IN IF got.raised # "none" THEN got
     ELSE IF got.value[1].SOT = <<>> THEN returns_none
     ELSE IF got.value[1].SOT[1].HR_Data = <<>> THEN raises("KeyError")
     ELSE IF mapping_get(got.value[1].SOT[1].HR_Data[1], "Official Email Address") = <<>>
       THEN raises("KeyError")
     ELSE returns(mapping_get(got.value[1].SOT[1].HR_Data[1], "Official Email Address")[1])

\* the handler's panel_email_field: the value of the first key of
\* app_config['SOT']['HR_Data']
handler_panel_email_field(cfg, app) ==
  LET got == get_app_config(cfg, app)
  IN IF got.raised # "none" THEN got
     ELSE IF got.value[1].SOT = <<>> \/ got.value[1].SOT[1].HR_Data = <<>>
       THEN raises("KeyError")
     ELSE IF got.value[1].SOT[1].HR_Data[1] = <<>> THEN raises("IndexError")
     ELSE returns(got.value[1].SOT[1].HR_Data[1][1][2])

\* one run of main(): 'Select Application' holds sel and the uploader holds
\* file; submitted is the column selection if 'Ingest Selected Columns' was
\* pressed; clicked tells whether 'Start Reconciliation' was pressed (and
\* accepts_app_name whether the reconciler class takes the keyword, see
\* start_reconciliation); mapping_choice is the application picked on the
\* Data Mapping tab, if one was picked; t is the time. A run that ends in
\* st.experimental_rerun() is followed at once by a run without the press.
script_run(sel, file, submitted, clicked, accepts_app_name, mapping_choice, t) ==
  LET new_file == file # <<>> /\ app_file_name # <<file[1].name>>
      name1 == IF new_file THEN <<file[1].name>> ELSE app_file_name
      raw1 == IF new_file THEN <<>> ELSE raw_app_data
      data1 == IF new_file THEN <<>> ELSE app_data
      columns1 == IF new_file THEN <<>> ELSE selected_columns
      to_ingest == file # <<>> /\ data1 = <<>>
      raw2 == IF to_ingest /\ raw1 = <<>>
                THEN <<[upload |-> file[1].upload, columns |-> file[1].columns]>>
                ELSE raw1
      ingesting == to_ingest /\ submitted # <<>>
      required == ingest_required_field(config, sel)
      ingest_error == ingesting /\ required.raised # "none"
      ingest_stop ==
        /\ ingesting /\ ~ingest_error
        /\ required.value # <<>> /\ required.value[1] \notin submitted[1]
      ingested == ingesting /\ ~ingest_error /\ ~ingest_stop
      columns2 == IF ingesting THEN submitted ELSE columns1
      data2 == IF ingested
                 THEN <<[upload |-> raw2[1].upload, columns |-> submitted[1]]>>
                 ELSE data1
      pressed == clicked /\ ~ingest_stop /\ hr_data # <<>> /\ data2 # <<>>
      field == handler_panel_email_field(config, sel)
      handler_error == pressed /\ (~accepts_app_name \/ field.raised # "none")
      handler_stop ==
        pressed /\ ~handler_error /\ field.value[1] \notin data2[1].columns
      reconciled == pressed /\ ~handler_error /\ ~handler_stop
      results2 == IF reconciled THEN <<[upload |-> data2[1].upload]>>
                  ELSE reconciliation_results
      complete2 == reconciled \/ primary_upload_complete
      \* st.stop() in tab1, or tab2's st.stop() before the upload is complete
      stopped == ingest_stop \/ handler_stop \/ ~complete2
      mapping_app == IF mapping_choice # <<>> THEN mapping_choice[1]
                     ELSE IF mapping_app_selectbox # <<>> THEN mapping_app_selectbox[1]
                     ELSE sel
      recon_id == generate_reconciliation_id(mapping_app, t)
  IN /\ program = "streamlit"
     /\ selectbox' = sel
     /\ app_file' = file
     /\ app_file_name' = name1
     /\ raw_app_data' = raw2
     /\ selected_columns' = columns2
     /\ app_data' = data2
     /\ reconciliation_results' = results2
     /\ primary_upload_complete' = complete2
     /\ now' = t
     /\ IF stopped
          THEN /\ selected_app' = <<sel>>
               /\ UNCHANGED <<mapping_app_selectbox, reconciliation_id,
                              results_tab_id, report_tab_id>>
          ELSE /\ mapping_app_selectbox' = <<mapping_app>>
               /\ selected_app' = <<mapping_app>>
               /\ results_tab_id' = <<recon_id>>
               /\ reconciliation_id' = <<recon_id>>
               /\ report_tab_id' = <<recon_id>>
     /\ pc' = IF reconciled THEN "st_done"
              ELSE IF handler_stop THEN "stopped"
              ELSE IF handler_error THEN "st_error"
              ELSE IF ingest_stop THEN "ingest_stopped"
              ELSE IF ingest_error THEN "ingest_error"
              ELSE IF ingested THEN "ingested"
              ELSE "rendered"
     /\ UNCHANGED <<program, files, cli_vars, hr_data, cfg_vars, db_vars, pair_vars>>

\* datetime.now() in a run: time does not go back
clock_reads == {t \in {now, now + 1} : t <= MaxClock}

\* the user picks another application in 'Select Application'
select_application ==
  \E a \in AppIds \ {selectbox}, t \in clock_reads :
    /\ script_run(a, app_file, <<>>, FALSE, FALSE, <<>>, t)
    /\ UNCHANGED uploads

\* the user puts a file into the uploader
upload_application_file ==
  \E name \in UploadNames, columns \in UploadColumnSets, t \in clock_reads :
    /\ uploads < MaxUploads
    /\ script_run(selectbox,
                  <<[name |-> name, upload |-> uploads + 1, columns |-> columns]>>,
                  <<>>, FALSE, FALSE, <<>>, t)
    /\ uploads' = uploads + 1

\* the user presses 'Ingest Selected Columns' in the form the last run drew
ingest_selected_columns ==
  /\ app_file # <<>> /\ app_data = <<>> /\ raw_app_data # <<>>
  /\ \E columns \in SUBSET raw_app_data[1].columns, t \in clock_reads :
       script_run(selectbox, app_file, <<columns>>, FALSE, FALSE, <<>>, t)
  /\ UNCHANGED uploads

\* the user presses 'Start Reconciliation', which the last run drew
press_start_reconciliation ==
  /\ hr_data # <<>> /\ app_data # <<>> /\ selected_app # <<>>
  /\ \E accepts_app_name \in BOOLEAN, t \in clock_reads :
       script_run(selectbox, app_file, <<>>, TRUE, accepts_app_name, <<>>, t)
  /\ UNCHANGED uploads

\* the user picks an application on the Data Mapping tab
select_mapping_application ==
  /\ primary_upload_complete
  /\ \E a \in AppIds, t \in clock_reads :
       script_run(selectbox, app_file, <<>>, FALSE, FALSE, <<a>>, t)
  /\ UNCHANGED uploads

\* any other interaction: the page is run again as it is
rerun_page ==
  /\ \E t \in clock_reads : script_run(selectbox, app_file, <<>>, FALSE, FALSE, <<>>, t)
  /\ UNCHANGED uploads

\* the session after the first run of the page
InitSession ==
  /\ program = "streamlit"
  /\ pc = "rendered"
  /\ hr_file = <<>>
  /\ hr_columns = required_hr_columns
  /\ tool_file = <<>>
  /\ tool_columns = required_tool_columns
  /\ hr_df = <<>>
  /\ tool_df = <<>>
  /\ exceptions = <<>>
  /\ error = "none"
  /\ error_columns = {}
  /\ rerun = FALSE
  /\ prev_exceptions = <<>>
  /\ hr_data = <<hr_file>>
  /\ app_data = <<>>
  /\ reconciliation_results = <<>>
  /\ primary_upload_complete = FALSE
  /\ config \in SessionConfigs
  /\ cfg_call = [op |-> "none"]
  /\ cfg_result = [raised |-> "none"]
  /\ db_idle
  /\ pair_idle
  /\ selected_app = <<first_app>>
  /\ selectbox = first_app
  /\ mapping_app_selectbox = <<>>
  /\ app_file = <<>>
  /\ app_file_name = <<>>
  /\ raw_app_data = <<>>
  /\ selected_columns = <<>>
  /\ reconciliation_id = <<>>
  /\ now = 1
  /\ results_tab_id = <<>>
  /\ report_tab_id = <<>>
  /\ uploads = 0

NextSession ==
  \/ select_application
  \/ upload_application_file
  \/ ingest_selected_columns
  \/ press_start_reconciliation
  \/ select_mapping_application
  \/ rerun_page

SpecSession == InitSession /\ [][NextSession]_vars

(* ------------------ reconify_pdf_recon.py: two reconcilers ------------- *)
\* two ReconifyReconciler objects of one process, each constructed with its
\* own tool_path, their methods called by two threads. Both read the HR file
\* at the fixed path HR_DATA_PATH. Every file has the required columns.
PairHRFile == <<[email |-> "a@x.com", status |-> "INACTIVE", name |-> "Jane"]>>
PairToolRows ==
  {[user_email |-> "A@X.com", role_name |-> "Admin", user_status |-> "ACTIVE",
    created_at |-> "2024-01-01"],
   [user_email |-> "A@X.com", role_name |-> "Admin", user_status |-> NaN,
    created_at |-> "2024-01-01"],
   [user_email |-> "b@x.com", role_name |-> "Admin", user_status |-> "ACTIVE",
    created_at |-> "2024-01-01"],
   [user_email |-> "c@x.com", role_name |-> "Admin", user_status |-> "ACTIVE",
    created_at |-> "2024-01-01"]}
Reconcilers == {1, 2}

\* the order in which this process iterates a set of strings
iteration_order(S) == SelectSeq(hash_order, LAMBDA e : e \in S)

\* ReconifyReconciler(tool_path)
new_instance(tool) ==
  [tool_file |-> tool, hr_df |-> <<>>, tool_df |-> <<>>, pc |-> "start",
   error |-> "none", exceptions |-> <<>>]

\* validate_input_files up to the HR file: self.hr_df = pd.read_csv(self.hr_path)
instance_read_hr(r) ==
  /\ instances # <<>>
  /\ instances[r].pc = "start"
  /\ instances' = [instances EXCEPT ![r].hr_df = hr_file, ![r].pc = "hr_read"]
  /\ UNCHANGED <<engine_vars, cfg_vars, db_vars, session_vars, hash_order>>

\* what the rest of validate_input_files leaves in an instance
validated_instance(inst) ==
  IF str_accessor_raises(hr_email_column(inst.hr_df))
    THEN [inst EXCEPT !.tool_df = inst.tool_file, !.error = "AttributeError",
                      !.pc = "failed"]
  ELSE IF str_accessor_raises(tool_email_column(inst.tool_file))
    THEN [inst EXCEPT !.hr_df = lower_hr_emails(@), !.tool_df = inst.tool_file,
                      !.error = "AttributeError", !.pc = "failed"]
  ELSE [inst EXCEPT !.hr_df = lower_hr_emails(@),
                    !.tool_df = lower_tool_emails(inst.tool_file),
                    !.pc = "validated"]

\* a variant in which tool_df is an attribute of the class, shared by the
\* instances
instance_read_tool_shared(r) ==
  /\ instances # <<>>
  /\ instances[r].pc = "hr_read"
  /\ instances' =
       [i \in Reconcilers |->
          IF i = r THEN validated_instance(instances[r])
          ELSE [instances[i] EXCEPT !.tool_df = validated_instance(instances[r]).tool_df]]
  /\ UNCHANGED <<engine_vars, cfg_vars, db_vars, session_vars, hash_order>>

\* the rest of validate_input_files: self.tool_df = pd.read_csv(self.tool_path)
\* and the lower-casing of both email columns
instance_read_tool(r) ==
  /\ instances # <<>>
  /\ instances[r].pc = "hr_read"
  /\ instances' = [instances EXCEPT ![r] = validated_instance(@)]
  /\ UNCHANGED <<engine_vars, cfg_vars, db_vars, session_vars, hash_order>>

\* what find_exceptions returns or raises on the given tables
found_exceptions(hr, tool) ==
  IF str_accessor_raises(hr_status_column(hr)) \/ loop1_raises(hr, tool)
    THEN [error |-> "AttributeError", exceptions |-> <<>>]
    ELSE [error |-> "none",
          exceptions |->
            loop1(hr, tool) \o loop2(tool, iteration_order(missing_in_hr(hr, tool)))]

\* find_exceptions on an instance
instance_find_exceptions(r) ==
  /\ instances # <<>>
  /\ instances[r].pc = "validated"
  /\ LET found == found_exceptions(instances[r].hr_df, instances[r].tool_df)
     IN instances' =
          [instances EXCEPT ![r].error = found.error,
                            ![r].exceptions = found.exceptions,
                            ![r].pc = IF found.error = "none" THEN "done" ELSE "failed"]
  /\ UNCHANGED <<engine_vars, cfg_vars, db_vars, session_vars, hash_order>>

\* both objects constructed, no method called yet
InitPair ==
  /\ program = "cli"
  /\ pc = "pair"
  /\ hr_file = PairHRFile
  /\ hr_columns = required_hr_columns
  /\ tool_file = <<>>
  /\ tool_columns = required_tool_columns
  /\ hr_df = <<>>
  /\ tool_df = <<>>
  /\ exceptions = <<>>
  /\ error = "none"
  /\ error_columns = {}
  /\ rerun = FALSE
  /\ prev_exceptions = <<>>
  /\ hr_data = <<>>
  /\ app_data = <<>>
  /\ reconciliation_results = <<>>
  /\ primary_upload_complete = FALSE
  /\ cfg_idle
  /\ db_idle
  /\ session_idle
  /\ \E tools \in [Reconcilers -> Files(PairToolRows, MaxPairRows)] :
       instances = [r \in Reconcilers |-> new_instance(tools[r])]
  /\ hash_order \in Orders({"b@x.com", "c@x.com"})

NextPair ==
  \/ \E r \in Reconcilers : instance_read_hr(r)
  \/ \E r \in Reconcilers : instance_read_tool(r)
  \/ \E r \in Reconcilers : instance_find_exceptions(r)

SpecPair == InitPair /\ [][NextPair]_vars

(* ---------------------------- the claims ------------------------------- *)
\* a run that returned its exception list, and that list
cli_done == program = "cli" /\ pc = "done"
st_done == program = "streamlit" /\ pc = "st_done"
run_done == cli_done \/ st_done
emitted == IF st_done THEN reconciliation_results[1] ELSE exceptions
emitted_for(i) == {k \in 1..Len(emitted) : emitted[k].row = i}

\* the application records as given, and the identity they denote
app_rows == 1..Len(tool_file)
has_identity(i) == tool_file[i].user_email # NaN
same_identity(i, j) ==
  has_identity(i) /\ str_lower(hr_file[j].email) = str_lower(tool_file[i].user_email)
hr_rows_of(i) == {j \in 1..Len(hr_file) : same_identity(i, j)}
found_in_hr(i) == hr_rows_of(i) # {}
\* the status the HR index holds for the record's email: the last row wins
last_hr_status(i) ==
  hr_file[CHOOSE j \in hr_rows_of(i) : \A l \in hr_rows_of(i) : l <= j].status
has_status(i) == tool_file[i].user_status # NaN
inactive_equivalent(i) ==
  has_status(i) /\ str_lower(tool_file[i].user_status) \in {"inactive", "disabled"}

\* what an exception row says; a field the row does not carry is "absent"
field(e, f) == IF f \in DOMAIN e THEN e[f] ELSE "absent"
\* the classification is the branch of the code that emitted the row
classification(e) ==
  IF field(e, "branch") = "inactive_hr" THEN "MISMATCH_REVOKE" ELSE "NOT_FOUND"

revoke_case(i) ==
  /\ has_identity(i)
  /\ \E j \in hr_rows_of(i) : str_lower(hr_file[j].status) = "inactive"
  /\ ~inactive_equivalent(i)
is_revoke_row(e) ==
  /\ classification(e) = "MISMATCH_REVOKE"
  /\ field(e, "action") = "revoke"
  /\ str_lower(field(e, "pre_status")) = "active"
  /\ str_lower(field(e, "post_status")) = "inactive"
\* C1: every application record whose email is in HR with status Inactive
\* and whose own status is not inactive/disabled gets an exception classified
\* MISMATCH_REVOKE with action revoke, pre_status Active, post_status
\* Inactive, and no other application record gets a revoke exception.
C1_RevokeExactlyForHRInactive ==
  run_done =>
    /\ \A i \in app_rows :
         revoke_case(i) => \E k \in emitted_for(i) : is_revoke_row(emitted[k])
    /\ \A k \in 1..Len(emitted) :
         (classification(emitted[k]) = "MISMATCH_REVOKE" \/ field(emitted[k], "action") = "revoke")
           => revoke_case(emitted[k].row)

not_found_case(i) == has_identity(i) /\ ~found_in_hr(i)
\* C2: every application record whose email is not found in HR gets an
\* exception classified NOT_FOUND with action review, and pre_status and
\* post_status both equal to the record's own status.
C2_NotFoundIsReview ==
  run_done =>
    \A i \in app_rows :
      not_found_case(i) =>
        \E k \in emitted_for(i) :
          /\ classification(emitted[k]) = "NOT_FOUND"
          /\ field(emitted[k], "action") = "review"
          /\ field(emitted[k], "pre_status") = tool_file[i].user_status
          /\ field(emitted[k], "post_status") = tool_file[i].user_status

classes_of(i) ==
  IF emitted_for(i) = {} THEN {"MATCH"}
  ELSE {classification(emitted[k]) : k \in emitted_for(i)}
count_of(c) == Cardinality({k \in 1..Len(emitted) : classification(emitted[k]) = c})
match_count == Cardinality({i \in app_rows : emitted_for(i) = {}})
\* C3: every application record is assigned exactly one classification (no
\* exception row: MATCH) and the four classification counts (exception rows
\* per classification, records without a row for MATCH) sum to the number
\* of application records.
C3_Completeness ==
  run_done =>
    /\ \A i \in app_rows : Cardinality(classes_of(i)) = 1
    /\ match_count + count_of("MISMATCH_REVOKE") + count_of("MISMATCH_REACTIVATE")
         + count_of("NOT_FOUND") = Len(tool_file)

\* C4: when several HR records share an email, the status of the last one in
\* input order decides: an application record (not inactive/disabled) gets a
\* revoke exception exactly when the last HR record with its email is
\* Inactive.
C4_LastHRRowWins ==
  cli_done =>
    \A i \in app_rows :
      (found_in_hr(i) /\ has_status(i) /\ ~inactive_equivalent(i)) =>
        ((\E k \in emitted_for(i) : classification(emitted[k]) = "MISMATCH_REVOKE")
           <=> str_lower(last_hr_status(i)) = "inactive")

reactivate_case(i) ==
  /\ found_in_hr(i)
  /\ \A j \in hr_rows_of(i) : str_lower(hr_file[j].status) = "active"
  /\ has_status(i)
  /\ str_lower(tool_file[i].user_status) = "inactive"
\* C6: every application record found in HR with HR status Active and own
\* status Inactive gets an exception classified MISMATCH_REACTIVATE with
\* action review.
C6_ReactivateIsFlagged ==
  cli_done =>
    \A i \in app_rows :
      reactivate_case(i) =>
        \E k \in emitted_for(i) :
          /\ field(emitted[k], "classification") = "MISMATCH_REACTIVATE"
          /\ field(emitted[k], "action") = "review"

canonical_app_status(i) ==
  IF inactive_equivalent(i) THEN "inactive" ELSE str_lower(tool_file[i].user_status)
\* C7: an application record found in HR whose status agrees with the HR
\* status (the last HR row's; inactive and disabled count as Inactive) gets
\* no exception.
C7_AgreeingRecordNotFlagged ==
  cli_done =>
    \A i \in app_rows :
      (found_in_hr(i) /\ has_status(i)
         /\ canonical_app_status(i) = str_lower(last_hr_status(i)))
        => emitted_for(i) = {}

\* C8: the exception list keeps the application input order: of two flagged
\* application records, the one earlier in the input is earlier in the list,
\* whatever their classification. Stated for the pairs of different
\* classification, whose order no set iteration order decides.
C8_ExceptionsInInputOrder ==
  cli_done =>
    \A p, q \in 1..Len(exceptions) :
      (p < q /\ classification(exceptions[p]) # classification(exceptions[q]))
        => exceptions[p].row <= exceptions[q].row

\* C9: two runs on identical, unchanged inputs return identical exception
\* sequences.
C9_SameInputsSameExceptions ==
  (cli_done /\ rerun) => exceptions = prev_exceptions

identity_missing ==
  \/ \E j \in 1..Len(hr_file) : hr_file[j].email = NaN
  \/ \E i \in 1..Len(tool_file) : tool_file[i].user_email = NaN
\* C10: a run on inputs in which some HR or application record has no email
\* value fails (with IdentityFieldMissing): it never completes with such a
\* record skipped or left unclassified.
C10_MissingIdentityFails == identity_missing => ~run_done

format_checked ==
  cfg_call.op = "validate_file_format" /\ cfg_result.raised = "none"
table_columns == Range(cfg_call.columns)
required_of_table ==
  Range(config[cfg_call.app_name][1].SOT[1][cfg_call.source_type][1]
          .table_format.required_columns)
error_texts ==
  {cfg_result.value[1].errors[k].text : k \in 1..Len(cfg_result.value[1].errors)}
\* C12: validate_file_format returns is_valid = TRUE exactly when the set of
\* the table's columns equals the configured set of required columns;
\* otherwise it returns FALSE with one error entry for the missing columns if
\* there are any and one for the extra columns if there are any (both when
\* the table has both), and no other entry.
C12_ValidExactlyWhenColumnsEqual ==
  format_checked =>
    /\ cfg_result.value[1].is_valid <=> (table_columns = required_of_table)
    /\ ("Missing required columns" \in error_texts)
         <=> (required_of_table \ table_columns # {})
    /\ ("Extra columns found" \in error_texts)
         <=> (table_columns \ required_of_table # {})
    /\ Len(cfg_result.value[1].errors) = Cardinality(error_texts)
    /\ error_texts \subseteq {"Missing required columns", "Extra columns found"}

\* a table with a required column missing and a column too many was checked
C12_Witness ==
  /\ format_checked
  /\ ~cfg_result.value[1].is_valid
  /\ Len(cfg_result.value[1].errors) = 2

\* the columns a raw table lacks, when validate_input_files raised ValueError
schema_error == program = "cli" /\ pc = "failed" /\ error = "ValueError"
missing_of_input ==
  IF ~(required_hr_columns \subseteq hr_columns)
    THEN required_hr_columns \ hr_columns
    ELSE required_tool_columns \ tool_columns
\* C13: when a raw table lacks required columns, the validation error names
\* exactly the missing columns (all of them, and none that is present), in
\* validate_file_format and in validate_input_files alike.
C13_ErrorNamesMissingColumns ==
  /\ format_checked =>
       \A k \in 1..Len(cfg_result.value[1].errors) :
         cfg_result.value[1].errors[k].text = "Missing required columns"
           => Range(cfg_result.value[1].errors[k].columns)
                = required_of_table \ table_columns
  /\ schema_error => error_columns = missing_of_input

\* C14: find_exceptions has no side effect on its inputs: when it returns, the
\* HR table and the application table are as they were before the call (as
\* validate_input_files left them); and its result depends on those two
\* tables only, so a second call on the same tables returns the same list.
C14_NoSideEffectAndFunctionOfTables ==
  cli_done =>
    /\ hr_df = lower_hr_emails(hr_file)
    /\ tool_df = lower_tool_emails(tool_file)
    /\ rerun => exceptions = prev_exceptions

\* C15: each row of reconciliation_results stored by
\* store_reconciliation_results carries a run id that an earlier
\* create_reconciliation_run call returned, and distinct
\* create_reconciliation_run calls return distinct ids.
C15_ResultsCarryCreatedRunId ==
  /\ \A k \in 1..Len(results_table) :
       /\ results_table[k].reconciliation_run_id # <<>>
       /\ results_table[k].reconciliation_run_id[1] \in Range(created_ids)
  /\ \A p, q \in 1..Len(created_ids) : p # q => created_ids[p] # created_ids[q]

\* C16: a run for which store_reconciliation_results failed part-way (after
\* it stored a row) has status FAILED or IN_PROGRESS afterwards, never
\* COMPLETED.
C16_PartialFailureNeverCompleted ==
  \A id \in partial_failures :
    runs_table[id] # <<>> => runs_table[id][1].status \in {"FAILED", "IN_PROGRESS"}

finalized(id) ==
  /\ runs_table[id] # <<>>
  /\ runs_table[id][1].status \in {"COMPLETED", "FAILED"}
  /\ runs_table[id][1].end_time # <<>>
\* C17: a run is created with status IN_PROGRESS and no end time, and once it
\* is finalized (status COMPLETED or FAILED, with an end time) no later
\* recorder operation changes its status or its end time.
C17_FinalizedRunNeverChanges ==
  [][\A id \in RunIds :
       /\ (runs_table[id] = <<>> /\ runs_table'[id] # <<>>)
            => runs_table'[id][1] = [status |-> "IN_PROGRESS", end_time |-> <<>>]
       /\ finalized(id) => runs_table'[id] = runs_table[id]]_vars

\* the application a ConfigHandler call names, and whether it is a key of the
\* loaded configuration
called_app == cfg_call.app_name
app_is_key == config[called_app] # <<>>
\* C18: get_app_config fails with the configuration-not-found error when the
\* application is not a key of the loaded configuration and returns that
\* application's entry otherwise; in both cases the loaded configuration is
\* left unchanged.
C18_GetAppConfigTotalAndPure ==
  /\ [](cfg_call.op = "get_app_config" =>
          IF app_is_key
            THEN cfg_result = [raised |-> "none", value |-> config[called_app]]
            ELSE cfg_result.raised = ConfigurationNotFound)
  /\ [][cfg_call'.op = "get_app_config" => config' = config]_vars

\* get_app_config was called for an unknown and for a known application
C18_Witness ==
  /\ cfg_call.op = "get_app_config"
  /\ cfg_result.raised = ConfigurationNotFound
  /\ \E other \in AppIds : config[other] # <<>>

\* whether the called source type is a key of the application's SOT section
has_sot == app_is_key /\ config[called_app][1].SOT # <<>>
source_is_key ==
  /\ has_sot
  /\ cfg_call.source_type \in DOMAIN config[called_app][1].SOT[1]
  /\ config[called_app][1].SOT[1][cfg_call.source_type] # <<>>
\* C19: get_source_mappings fails with the source-type-not-found error
\* whenever the source type is not configured under the application's SOT
\* section (an entry without SOT section included), and with the
\* configuration-not-found error, not the source-type one, when the
\* application itself is not configured.
C19_SourceMappingsErrors ==
  cfg_call.op = "get_source_mappings" =>
    /\ ~app_is_key => cfg_result.raised = ConfigurationNotFound
    /\ (app_is_key /\ ~source_is_key) => cfg_result.raised = SourceTypeNotFound

\* get_source_mappings was called on an entry that has no SOT section
C19_Witness ==
  /\ cfg_call.op = "get_source_mappings"
  /\ app_is_key /\ ~has_sot
  /\ cfg_result.raised = SourceTypeNotFound

\* the application's HR_Data mapping, when it is configured
hr_data_is_key == has_sot /\ config[called_app][1].SOT[1].HR_Data # <<>>
hr_data_mapping == config[called_app][1].SOT[1].HR_Data[1]
\* C20: get_hr_email_column and get_panel_email_column return k and v where
\* k -> v is the first entry of the application's HR_Data mapping, so both
\* belong to the same entry; each fails with the HR-data-missing error when
\* HR_Data is not configured for the application.
C20_IdentityColumnsAreFirstEntry ==
  cfg_call.op \in {"get_hr_email_column", "get_panel_email_column"} =>
    /\ (app_is_key /\ ~hr_data_is_key) => cfg_result.raised = HRDataNotFound
    /\ (hr_data_is_key /\ hr_data_mapping # <<>>) =>
         IF cfg_call.op = "get_hr_email_column"
           THEN cfg_result = [raised |-> "none", value |-> <<hr_data_mapping[1][1]>>]
           ELSE cfg_result = [raised |-> "none", value |-> <<hr_data_mapping[1][2]>>]

\* the panel column was asked of a mapping whose two entries have different
\* panel fields
C20_Witness ==
  /\ cfg_call.op = "get_panel_email_column"
  /\ hr_data_is_key
  /\ Len(hr_data_mapping) = 2
  /\ hr_data_mapping[1][2] # hr_data_mapping[2][2]
  /\ cfg_result.raised = "none"

\* str.strip() on the strings of the model
str_strip(s) == IF s = " a@x.com " THEN "a@x.com" ELSE s
normalized(v) == v = NaN \/ (str_lower(v) = v /\ str_strip(v) = v)
same_email(a, b) == str_strip(str_lower(a)) = str_strip(str_lower(b))
\* C21: after validate_input_files every email of the HR table and of the
\* application table is lower-cased and has no leading or trailing
\* whitespace, so two emails that differ only by case or by surrounding
\* whitespace are equal in the tables find_exceptions compares.
C21_EmailsLowerCasedAndTrimmed ==
  (program = "cli" /\ pc \in {"validated", "done"}) =>
    /\ \A j \in 1..Len(hr_df) : normalized(hr_df[j].email)
    /\ \A i \in 1..Len(tool_df) : normalized(tool_df[i].user_email)
    /\ \A i \in 1..Len(tool_df), j \in 1..Len(hr_df) :
         (has_identity(i) /\ same_email(tool_file[i].user_email, hr_file[j].email))
           => pd_eq(tool_df[i].user_email, hr_df[j].email)

\* a status outside the words the reconciliation knows, and the status an
\* exception row records for its application record
unrecognized(status) ==
  status # NaN /\ str_lower(status) \notin {"active", "inactive", "disabled"}
recorded_status(e) ==
  IF "app_status" \in DOMAIN e THEN e.app_status
  ELSE IF "Tool" \in DOMAIN e THEN e.Tool.user_status
  ELSE field(e, "pre_status")
\* C22: an unrecognized status value never makes the run fail and is never
\* folded into Active or Inactive: the run ends without a status error, and
\* an exception row emitted for an application record that is found in HR
\* and has such a status records the status as Unknown.
C22_UnknownStatusRecorded ==
  /\ (program = "cli" /\ pc = "failed") => error = "ValueError"
  /\ cli_done =>
       \A i \in app_rows :
         (found_in_hr(i) /\ unrecognized(tool_file[i].user_status)) =>
           \A k \in emitted_for(i) : recorded_status(emitted[k]) = "Unknown"

\* a run that ended in an error: the command line's, or the handler's
cli_failed == program = "cli" /\ pc = "failed"
st_failed == program = "streamlit" /\ pc \in {"st_error", "stopped"}
\* C23: all-or-nothing per run: a run in which validation or reconciliation
\* raised ends with that error and with no exception list of that run
\* returned or stored; in the Streamlit handler, reconciliation_results and
\* primary_upload_complete keep the values they had before the handler ran.
C23_AllOrNothing ==
  /\ [](cli_failed => (error # "none" /\ exceptions = <<>>))
  /\ [][st_failed' =>
          /\ reconciliation_results' = reconciliation_results
          /\ primary_upload_complete' = primary_upload_complete]_vars

\* find_exceptions raised on a file that has a record to report, and the
\* handler ended in an error on a loaded file
C23_Witness ==
  \/ /\ cli_failed
     /\ error = "AttributeError"
     /\ hr_df # <<>>
     /\ missing_in_hr(hr_df, tool_df) # {}
  \/ /\ st_failed
     /\ app_data # <<>>
     /\ Len(app_data[1]) > 0

\* what a reconciler returns or raises when it runs alone in this process:
\* validate_input_files, then find_exceptions
run_alone(hr, tool) ==
  IF str_accessor_raises(hr_email_column(hr)) \/ str_accessor_raises(tool_email_column(tool))
    THEN [error |-> "AttributeError", exceptions |-> <<>>]
    ELSE found_exceptions(lower_hr_emails(hr), lower_tool_emails(tool))
finished(r) == instances # <<>> /\ instances[r].pc \in {"done", "failed"}
\* C24: two reconcilers (separate ReconifyReconciler instances) running
\* concurrently on their own application files do not interfere: under every
\* interleaving of their steps each ends with exactly the exception list, or
\* the error, it ends with when run alone.
C24_ConcurrentRunsDoNotInterfere ==
  \A r \in Reconcilers :
    finished(r) =>
      /\ instances[r].error = run_alone(hr_file, instances[r].tool_file).error
      /\ instances[r].exceptions = run_alone(hr_file, instances[r].tool_file).exceptions

\* one reconciler has returned two records missing in HR, of different
\* emails, while the other, given another file, is in the middle of validation
C24_Witness ==
  /\ finished(1)
  /\ Len(instances[1].exceptions) = 2
  /\ instances[1].exceptions[1].Email # instances[1].exceptions[2].Email
  /\ instances[2].pc = "hr_read"
  /\ instances[2].tool_file # instances[1].tool_file
  /\ instances[2].tool_file # <<>>

\* C25: find_exceptions emits at most one exception row per application row,
\* also when several HR rows share an email, and never more exception rows
\* than there are application rows.
C25_AtMostOneRowPerApplicationRow ==
  cli_done =>
    /\ \A i \in app_rows : Cardinality(emitted_for(i)) <= 1
    /\ Len(exceptions) <= Len(tool_file)

\* C26: store_reconciliation_results is atomic for one result list: a call
\* that failed left none of the list's rows in reconciliation_results.
C26_StoreIsAtomic ==
  [][(db_call'.op = "store_reconciliation_results" /\ db_result'.raised # "none")
       => results_table' = results_table]_vars

\* the emails the page flagged as absent from HR, and the emails the command
\* line reports as missing in HR for the same two files, both lower-cased
st_flagged_emails ==
  {series_str_lower(reconciliation_results[1][k].email) :
     k \in 1..Len(reconciliation_results[1])}
cli_missing_emails ==
  missing_in_hr(lower_hr_emails(hr_file), lower_tool_emails(tool_file))
cli_would_return ==
  /\ required_hr_columns \subseteq hr_columns
  /\ required_tool_columns \subseteq tool_columns
  /\ ~str_accessor_raises(hr_email_column(hr_file))
  /\ ~str_accessor_raises(tool_email_column(tool_file))
  /\ ~str_accessor_raises(hr_status_column(hr_file))
  /\ ~loop1_raises(lower_hr_emails(hr_file), lower_tool_emails(tool_file))
session_loop_ran == program = "streamlit" /\ pc \in {"st_done", "stopped"}
C29_AppDataFromLatestUpload ==
  /\ app_data # <<>> => app_data[1].upload = uploads
  /\ raw_app_data # <<>> => raw_app_data[1].upload = uploads

====
